---- MODULE Spec2Model ----
(***************************************************************************)
(* A model of the watermarking pipeline's data logic:                      *)
(*   - prepare_data  (train_watermark_cifar.py): the poisoned/benign       *)
(*     partition of the training set and the two training loaders;         *)
(*   - select_images and main (test_cifar.py): the per-trial class sample  *)
(*     of both arms, the trial records and the detection rate.             *)
(*                                                                         *)
(* Conventions.  A Python list is a sequence; Python positions are         *)
(* 0-based, so element i of a list x is x[i + 1] here.  An image is        *)
(* identified by its position in the dataset it was loaded from.  A poison *)
(* rate is k / RateDen with RateDen a power of two: such a rate, and its   *)
(* product with a small integer, is exact in binary floating point, so     *)
(* int(n * rate) is (n * k) \div RateDen.  A float that may be NaN is a    *)
(* record [nan, v]; a p-value is counted in thousandths.                   *)
(***************************************************************************)
EXTENDS Integers, Sequences, FiniteSets

\* ---------------------------------------------------------------- bounds
MaxTrain == 4
MaxLoaderTrain == 8
MaxBatch == 3
RateBits == 3
MaxTest == 3
MaxImg == 2
MaxTrials == 2

\* 0.05 of line 123, in thousandths
SignificanceLevel == 50

RECURSIVE Pow2(_)
Pow2(n) == IF n = 0 THEN 1 ELSE 2 * Pow2(n - 1)

RateDen == Pow2(RateBits)
Rates == 0..RateDen
Classes == {0, 1}

VARIABLES
  \* prepare_data
  tpc, num_training, train_targets, poison_rate, y_target, train_batch,
  num_poisoned, idx, poisoned_idx, benign_idx,
  poisoned_img, poisoned_target, benign_img, benign_target,
  poisoned_batch, benign_batch, poisoned_iters, benign_iters,
  \* test_cifar.main
  pc, checkpoint_isfile, test_targets, select_class, num_img, num_test,
  iters, watermarked_data, watermarked_targets, standard_data, standard_targets,
  T_tests, Stats, p_value, rsd, csv, stdout

trainVars == <<tpc, num_training, train_targets, poison_rate, y_target, train_batch,
               num_poisoned, idx, poisoned_idx, benign_idx,
               poisoned_img, poisoned_target, benign_img, benign_target,
               poisoned_batch, benign_batch, poisoned_iters, benign_iters>>

testVars == <<pc, checkpoint_isfile, test_targets, select_class, num_img, num_test,
              iters, watermarked_data, watermarked_targets, standard_data,
              standard_targets, T_tests, Stats, p_value, rsd, csv, stdout>>

vars == <<trainVars, testVars>>

\* ------------------------------------------------------------- list helpers
Min(a, b) == IF a < b THEN a ELSE b

\* list(np.arange(n))
arange(n) == [k \in 1..n |-> k - 1]

\* x[:n] for n >= 0
Prefix(x, n) == SubSeq(x, 1, Min(n, Len(x)))

\* x[n:] for n >= 0
Suffix(x, n) == SubSeq(x, Min(n, Len(x)) + 1, Len(x))

\* [x[i] for i in ix]
Take(x, ix) == [k \in 1..Len(ix) |-> x[ix[k] + 1]]

\* [v] * n
Repeat(v, n) == [k \in 1..n |-> v]

Elems(x) == {x[k] : k \in 1..Len(x)}

NoRepeats(x) == \A a, b \in 1..Len(x) : a # b => x[a] # x[b]

\* x[i], x[j] = x[j], x[i]
Swap(x, i, j) == [x EXCEPT ![i + 1] = x[j + 1], ![j + 1] = x[i + 1]]

\* The random numbers one random.shuffle of an n-element list consumes:
\* draws[i] is randbelow(i + 1), for i = n - 1 down to 1.
RECURSIVE DrawsUpTo(_)
DrawsUpTo(m) ==
  IF m < 1 THEN {<<>>}
  ELSE {Append(d, j) : d \in DrawsUpTo(m - 1), j \in 0..m}

Draws(n) == DrawsUpTo(n - 1)

\* random.shuffle(x): for i in reversed(range(1, len(x))): swap x[i], x[randbelow(i+1)]
RECURSIVE ShuffleFrom(_, _, _)
ShuffleFrom(x, i, draws) ==
  IF i < 1 THEN x ELSE ShuffleFrom(Swap(x, i, draws[i]), i - 1, draws)

shuffle(x, draws) == ShuffleFrom(x, Len(x) - 1, draws)

\* ------------------------------------------------------------ prepare_data

\* round(n * poison_rate): IntTimesRate rounding to nearest
IntTimesRateRounded(n, k) == (2 * n * k + RateDen) \div (2 * RateDen)

\* int(n * poison_rate), poison_rate = k / RateDen: int truncates
IntTimesRate(n, k) == (n * k) \div RateDen

\* idx[:num_poisoned] and idx[num_poisoned:]
SplitPoisoned(ix, np) == Prefix(ix, np)

SplitBenign(ix, np) == Suffix(ix, np)

\* [args.y_target] * num_poisoned
PoisonedTarget(y, np) == Repeat(y, np)

\* BenignTarget reading the labels of the first positions instead
BenignTargetByRank(targets, bidx) == [k \in 1..Len(bidx) |-> targets[k]]

\* [benign_trainset.targets[i] for i in benign_idx]
BenignTarget(targets, bidx) == Take(targets, bidx)

\* int(args.train_batch * args.poison_rate)
PoisonedBatch(b, k) == IntTimesRate(b, k)

\* int(args.train_batch * (1 - args.poison_rate) * 0.9)
BenignBatch(b, k) == (b * (RateDen - k) * 9) \div (RateDen * 10)

\* len(DataLoader(dataset, batch_size=b)) with drop_last=False: ceil(n / b)
LoaderLen(n, b) == (n + b - 1) \div b

TrainIdle ==
  /\ tpc = "idle" /\ num_training = 0 /\ train_targets = <<>> /\ poison_rate = 0
  /\ y_target = 0 /\ train_batch = 0 /\ num_poisoned = 0 /\ idx = <<>>
  /\ poisoned_idx = <<>> /\ benign_idx = <<>> /\ poisoned_img = <<>>
  /\ poisoned_target = <<>> /\ benign_img = <<>> /\ benign_target = <<>>
  /\ poisoned_batch = 0 /\ benign_batch = 0 /\ poisoned_iters = 0 /\ benign_iters = 0

TestIdle ==
  /\ pc = "idle" /\ checkpoint_isfile = FALSE /\ test_targets = <<>>
  /\ select_class = 0 /\ num_img = 0 /\ num_test = 0 /\ iters = 0
  /\ watermarked_data = <<>> /\ watermarked_targets = <<>>
  /\ standard_data = <<>> /\ standard_targets = <<>>
  /\ T_tests = <<>> /\ Stats = <<>> /\ p_value = <<>> /\ rsd = <<>>
  /\ csv = {} /\ stdout = <<>>

\* The CIFAR training set as loaded (lines 50-52) and the arguments.
InitPartition ==
  /\ TestIdle
  /\ tpc = "start"
  /\ num_training \in 0..MaxTrain
  /\ train_targets \in [1..num_training -> Classes]
  /\ poison_rate \in Rates
  /\ y_target \in Classes
  /\ train_batch \in 1..MaxBatch
  /\ num_poisoned = 0
  /\ idx = <<>> /\ poisoned_idx = <<>> /\ benign_idx = <<>>
  /\ poisoned_img = <<>> /\ poisoned_target = <<>>
  /\ benign_img = <<>> /\ benign_target = <<>>
  /\ poisoned_batch = 0 /\ benign_batch = 0
  /\ poisoned_iters = 0 /\ benign_iters = 0

\* Lines 74-77: DataLoader raises ValueError for a batch size of 0.
MakeLoaders(np, nb) ==
  /\ poisoned_batch' = PoisonedBatch(train_batch, poison_rate)
  /\ benign_batch' = BenignBatch(train_batch, poison_rate)
  /\ IF poisoned_batch' < 1 \/ benign_batch' < 1
       THEN /\ tpc' = "ValueError"
            /\ UNCHANGED <<poisoned_iters, benign_iters>>
       ELSE /\ tpc' = "done"
            /\ poisoned_iters' = LoaderLen(np, poisoned_batch')
            /\ benign_iters' = LoaderLen(nb, benign_batch')

\* prepare_data, lines 56-77.
PrepareData ==
  /\ tpc = "start"
  /\ \E draws \in Draws(num_training) :
       /\ num_poisoned' = IntTimesRate(num_training, poison_rate)
       /\ idx' = shuffle(arange(num_training), draws)
       /\ poisoned_idx' = SplitPoisoned(idx', num_poisoned')
       /\ benign_idx' = SplitBenign(idx', num_poisoned')
       /\ poisoned_img' = Take(arange(num_training), poisoned_idx')
       /\ poisoned_target' = PoisonedTarget(y_target, num_poisoned')
       /\ benign_img' = Take(arange(num_training), benign_idx')
       /\ benign_target' = BenignTarget(train_targets, benign_idx')
       /\ MakeLoaders(Len(poisoned_img'), Len(benign_img'))
  /\ UNCHANGED <<num_training, train_targets, poison_rate, y_target, train_batch>>
  /\ UNCHANGED testVars

NextPartition == PrepareData

SpecPartition == InitPartition /\ [][NextPartition]_vars

C7_ViewLabels ==
  tpc # "start" =>
    /\ Len(poisoned_target) = Len(poisoned_img)
    /\ \A k \in 1..Len(poisoned_target) : poisoned_target[k] = y_target
    /\ Len(benign_target) = Len(benign_img)
    /\ \A k \in 1..Len(benign_img) :
         /\ benign_img[k] = benign_idx[k]
         /\ benign_target[k] = train_targets[benign_img[k] + 1]

\* A poisoned sample whose original label was not the target, and a benign
\* view whose labels are not simply the first labels of the dataset.
C7_Witness ==
  /\ tpc = "done"
  /\ \E k \in 1..Len(poisoned_img) : train_targets[poisoned_img[k] + 1] # y_target
  /\ benign_target # <<>>
  /\ benign_target # Prefix(train_targets, Len(benign_target))

\* ------------------------------------------- prepare_data, the loader sizes
\* The lengths of the two training loaders depend on the split only through the
\* two counts, so this specification follows prepare_data on the counts alone
\* (lines 56-57 and 74-77) and reaches larger training sets.
InitLoaders ==
  /\ TestIdle
  /\ tpc = "start"
  /\ num_training \in 0..MaxLoaderTrain
  /\ train_targets = Repeat(0, num_training)
  /\ poison_rate \in Rates
  /\ y_target = 0
  /\ train_batch \in 1..MaxBatch
  /\ num_poisoned = 0
  /\ idx = <<>> /\ poisoned_idx = <<>> /\ benign_idx = <<>>
  /\ poisoned_img = <<>> /\ poisoned_target = <<>>
  /\ benign_img = <<>> /\ benign_target = <<>>
  /\ poisoned_batch = 0 /\ benign_batch = 0
  /\ poisoned_iters = 0 /\ benign_iters = 0

PrepareDataSizes ==
  /\ tpc = "start"
  /\ num_poisoned' = IntTimesRate(num_training, poison_rate)
  /\ MakeLoaders(num_poisoned', num_training - num_poisoned')
  /\ UNCHANGED <<num_training, train_targets, poison_rate, y_target, train_batch,
                 idx, poisoned_idx, benign_idx, poisoned_img, poisoned_target,
                 benign_img, benign_target>>
  /\ UNCHANGED testVars

NextLoaders == PrepareDataSizes

SpecLoaders == InitLoaders /\ [][NextLoaders]_vars

\* C10: when both batch sizes are at least 1, the benign loader never has fewer
\* mini-batch iterations than the poisoned loader.
C10_BenignItersNotLess ==
  tpc = "done" => benign_iters >= poisoned_iters

\* ------------------------------------------------------------- test_cifar
\* A float: NaN, or the value v.
NaN == [nan |-> TRUE, v |-> 0]

Float(x) == [nan |-> FALSE, v |-> x]

\* a < b on floats: every comparison with NaN is False
Lt(a, b) == ~a.nan /\ ~b.nan /\ a.v < b.v

\* The statistics and the p-values (in thousandths) a trial's test may return.
\* The code only compares a statistic with 0 and a p-value with 0.05 / 2: a
\* value below the threshold and the threshold itself are kept of each.
StatValues == {-1, 0}

PValues == {24, 25}

\* ttest_rel on two arms of n paired scores.  The scores come from the
\* classifier, so any result is possible; with fewer than two pairs, or with
\* constant equal arms, the statistic and the p-value are NaN.
ttest_rel(n) ==
  {[stat |-> NaN, p |-> NaN]} \cup
  (IF n < 2 THEN {}
   ELSE {[stat |-> Float(t), p |-> Float(q)] : t \in StatValues, q \in PValues})

\* load_model without its assertion
load_model_unchecked(isfile) == "ok"

\* load_model: assert os.path.isfile(checkpoint_path)
load_model(isfile) == IF isfile THEN "ok" ELSE "AssertionError"

\* The dataset positions whose label is cls, in order:
\* [i for i in range(len(dataset)) if dataset.targets[i] == select_class]
RECURSIVE ClassPositions(_, _, _)
ClassPositions(targets, cls, n) ==
  IF n = 0 THEN <<>>
  ELSE IF targets[n] = cls
         THEN Append(ClassPositions(targets, cls, n - 1), n - 1)
         ELSE ClassPositions(targets, cls, n - 1)

\* idx[:num_img + 1]: ImageIdx taking one index too many
ImageIdxOneMore(ix, n) == Prefix(ix, n + 1)

\* idx[:num_img]
ImageIdx(ix, n) == Prefix(ix, n)

\* select_images, lines 58-66: the images (as dataset positions) and labels drawn.
select_images(targets, cls, n, draws) ==
  LET select_img == ClassPositions(targets, cls, Len(targets))
      select_target == Take(targets, select_img)
      image_idx == ImageIdx(shuffle(arange(Len(select_img)), draws), n)
  IN  [img |-> Take(select_img, image_idx), target |-> Take(select_target, image_idx)]

\* IsSuccess comparing the p-value with the whole significance level
IsSuccessNoHalving(stat, p) == Lt(stat, Float(0)) /\ Lt(p, Float(SignificanceLevel))

\* (Stats[i] < 0) and (p_value[i] < 0.05 / 2)
IsSuccess(stat, p) == Lt(stat, Float(0)) /\ Lt(p, Float(SignificanceLevel \div 2))

\* [i for i in range(num_test) if ...], line 123
RECURSIVE SuccessUpTo(_, _, _)
SuccessUpTo(stats, ps, n) ==
  IF n = 0 THEN <<>>
  ELSE IF IsSuccess(stats[n], ps[n])
         THEN Append(SuccessUpTo(stats, ps, n - 1), n - 1)
         ELSE SuccessUpTo(stats, ps, n - 1)

idx_success_detection(stats, ps, n) == SuccessUpTo(stats, ps, n)

\* Stats.append(T_test[0]); p_value.append(T_test[1])
Record(list, x) == Append(list, x)

\* Rsd counting one success too many
RsdOffByOne(succ, n) == <<Len(succ) + 1, n>>

\* len(idx_success_detection) / args.num_test, as <<numerator, denominator>>
Rsd(succ, n) == <<Len(succ), n>>

\* Scoring an arm of n images and computing the statistic (utils.test1, then
\* ttest_rel) fails for n = 0: the loop has no guard for an empty sample.
ScoreFails(n) == n = 0

Members == Len(ClassPositions(test_targets, select_class, Len(test_targets)))

\* What one call of select_images on the test set may return, over the random
\* numbers its shuffle consumes.
Samples ==
  {select_images(test_targets, select_class, num_img, draws) : draws \in Draws(Members)}

\* The CIFAR test set as loaded (lines 93-94), the arguments and the file system.
Init ==
  /\ TrainIdle
  /\ pc = "start"
  /\ checkpoint_isfile \in BOOLEAN
  /\ \E n \in 0..MaxTest : test_targets \in [1..n -> Classes]
  /\ select_class \in Classes
  /\ num_img \in 0..MaxImg
  /\ num_test \in 0..MaxTrials
  /\ iters = 0
  /\ watermarked_data = <<>> /\ watermarked_targets = <<>>
  /\ standard_data = <<>> /\ standard_targets = <<>>
  /\ T_tests = <<>> /\ Stats = <<>> /\ p_value = <<>>
  /\ rsd = <<>> /\ csv = {} /\ stdout = <<>>

\* main, lines 70-96: the model is loaded before the trial loop starts.
LoadModel ==
  /\ pc = "start"
  /\ stdout' = Append(stdout, "Loading model from checkpoint")
  /\ pc' = IF load_model(checkpoint_isfile) = "ok" THEN "loop" ELSE "AssertionError"
  /\ UNCHANGED <<checkpoint_isfile, test_targets, select_class, num_img, num_test,
                 iters, watermarked_data, watermarked_targets, standard_data,
                 standard_targets, T_tests, Stats, p_value, rsd, csv>>
  /\ UNCHANGED trainVars

\* The arguments and the dataset, which the run never changes.
testInputs == <<checkpoint_isfile, test_targets, select_class, num_img, num_test>>

\* Lines 97-100: an iteration starts.  random.seed puts the generator in a state
\* of its own choosing, and both per-trial datasets are created anew, each
\* holding the whole test set.
TrialStart ==
  /\ pc = "loop" /\ iters < num_test
  /\ watermarked_data' = arange(Len(test_targets))
  /\ watermarked_targets' = test_targets
  /\ standard_data' = arange(Len(test_targets))
  /\ standard_targets' = test_targets
  /\ pc' = "select_watermarked"
  /\ UNCHANGED <<testInputs, iters, T_tests, Stats, p_value, rsd, csv, stdout>>
  /\ UNCHANGED trainVars

\* Lines 102-103: the watermarked arm's sample, from a shuffle of its own.
SelectWatermarked ==
  /\ pc = "select_watermarked"
  /\ \E w \in Samples :
       /\ watermarked_data' = w.img
       /\ watermarked_targets' = w.target
  /\ pc' = "select_standard"
  /\ UNCHANGED <<testInputs, iters, standard_data, standard_targets,
                 T_tests, Stats, p_value, rsd, csv, stdout>>
  /\ UNCHANGED trainVars

\* Lines 105-106: the standard arm's sample, from the next shuffle.
SelectStandard ==
  /\ pc = "select_standard"
  /\ \E s \in Samples :
       /\ standard_data' = s.img
       /\ standard_targets' = s.target
  /\ pc' = "score"
  /\ UNCHANGED <<testInputs, iters, watermarked_data, watermarked_targets,
                 T_tests, Stats, p_value, rsd, csv, stdout>>
  /\ UNCHANGED trainVars

\* Lines 108-121: both arms are scored, the test is run and its result recorded.
Score ==
  /\ pc = "score"
  /\ \/ /\ ScoreFails(Len(watermarked_data))
        /\ pc' = "StatisticError"
        /\ UNCHANGED <<T_tests, Stats, p_value, iters, stdout>>
     \/ /\ ~ScoreFails(Len(watermarked_data))
        /\ \E T_test \in ttest_rel(Len(watermarked_data)) :
             /\ T_tests' = Append(T_tests, T_test)
             /\ Stats' = Record(Stats, T_test.stat)
             /\ p_value' = Record(p_value, T_test.p)
        /\ iters' = iters + 1
        /\ stdout' = Append(stdout, "progress")
        /\ pc' = "loop"
  /\ UNCHANGED <<testInputs, watermarked_data, watermarked_targets,
                 standard_data, standard_targets, rsd, csv>>
  /\ UNCHANGED trainVars

\* Lines 123-131: the detection rate, the three exports and the summary.
Aggregate ==
  /\ pc = "loop" /\ iters >= num_test
  /\ IF num_test = 0
       THEN /\ pc' = "ZeroDivisionError"
            /\ UNCHANGED <<rsd, csv, stdout>>
       ELSE /\ rsd' = Rsd(idx_success_detection(Stats, p_value, num_test), num_test)
            /\ csv' = {"Stats.csv", "p_value.csv", "RSD.csv"}
            /\ stdout' = Append(stdout, "RSD")
            /\ pc' = "done"
  /\ UNCHANGED <<checkpoint_isfile, test_targets, select_class, num_img, num_test,
                 iters, watermarked_data, watermarked_targets, standard_data,
                 standard_targets, T_tests, Stats, p_value>>
  /\ UNCHANGED trainVars

Next ==
  \/ LoadModel
  \/ TrialStart
  \/ SelectWatermarked
  \/ SelectStandard
  \/ Score
  \/ Aggregate

Spec == Init /\ [][Next]_vars

\* Both arms hold the samples a trial has drawn.
Drawn ==
  \/ pc \in {"score", "StatisticError"}
  \/ pc \in {"loop", "done"} /\ iters > 0

\* C1: in every trial, sample k of the watermarked arm and sample k of the
\* standard arm are the same image of the test set, for every k.
C1_SameImages ==
  Drawn => watermarked_data = standard_data

\* C3: at the end of the run the records are the trials' results, one per trial
\* in trial order; a trial is a success iff its statistic is < 0 and its
\* p-value is < significance level / 2; the rate is successes / num_test.
C3_DetectionRule ==
  pc = "done" =>
    /\ Len(Stats) = num_test /\ Len(p_value) = num_test
    /\ \A i \in 1..num_test :
         Stats[i] = T_tests[i].stat /\ p_value[i] = T_tests[i].p
    /\ rsd = << Cardinality({i \in 1..num_test :
                   /\ ~Stats[i].nan /\ Stats[i].v < 0
                   /\ ~p_value[i].nan /\ 2 * p_value[i].v < SignificanceLevel}),
                num_test >>

\* Two trials with different results, one a success and one with a negative
\* statistic whose p-value is exactly half the significance level.
C3_Witness ==
  /\ pc = "done" /\ num_test = 2 /\ rsd = <<1, 2>>
  /\ T_tests[1] # T_tests[2]
  /\ \E i \in 1..2 : Lt(Stats[i], Float(0)) /\ 2 * p_value[i].v = SignificanceLevel

\* C4: the detection rate lies within [0, 1]; with one trial it is 0 or 1.
C4_RateInUnitInterval ==
  pc = "done" =>
    /\ rsd[2] > 0 /\ 0 <= rsd[1] /\ rsd[1] <= rsd[2]
    /\ num_test = 1 => (rsd[1] = 0 \/ rsd[1] = rsd[2])

\* A run of one trial, which is a success.
C4_Witness ==
  pc = "done" /\ num_test = 1 /\ rsd = <<1, 1>>

\* C5: with count <= members of the class, each arm's draw has exactly count
\* items, all labelled with the class, and no dataset position twice.
C5_ClassSample ==
  (Drawn /\ num_img <= Members) =>
    /\ Len(watermarked_data) = num_img /\ Len(standard_data) = num_img
    /\ Len(watermarked_targets) = num_img /\ Len(standard_targets) = num_img
    /\ \A k \in 1..num_img :
         /\ watermarked_targets[k] = select_class
         /\ standard_targets[k] = select_class
         /\ test_targets[watermarked_data[k] + 1] = select_class
         /\ test_targets[standard_data[k] + 1] = select_class
    /\ NoRepeats(watermarked_data) /\ NoRepeats(standard_data)

\* A draw from a class that has more images than asked for, among images of
\* another class, which is not simply the first images of the class.
C5_Witness ==
  /\ Drawn /\ 0 < num_img /\ num_img < Members
  /\ Members < Len(test_targets)
  /\ watermarked_data # Prefix(ClassPositions(test_targets, select_class, Len(test_targets)), num_img)

\* C6: when the class has fewer members than the requested count, the draw is
\* all the members, a warning is flagged, and the run goes on.
C6_ShortSampleWarned ==
  (Drawn /\ Members < num_img) =>
    /\ Len(watermarked_data) = Members /\ Len(standard_data) = Members
    /\ "warning" \in Elems(stdout)
    /\ pc # "StatisticError"

\* C8: a trial on a class with no sample is skipped: the run does not fail at
\* the statistic computation and the trial is counted nowhere.
C8_EmptyClassSkipped ==
  Members = 0 =>
    /\ pc # "StatisticError"
    /\ Stats = <<>> /\ p_value = <<>>
    /\ pc = "done" => rsd[2] = 0

\* C9: without the checkpoint file the run aborts before any trial: no trial
\* is started, no record appended, no rate computed and no file exported.
C9_AbortBeforeTrials ==
  ~checkpoint_isfile =>
    /\ pc \in {"start", "AssertionError"}
    /\ iters = 0 /\ ~Drawn
    /\ watermarked_data = <<>> /\ standard_data = <<>>
    /\ Stats = <<>> /\ p_value = <<>> /\ T_tests = <<>>
    /\ rsd = <<>> /\ csv = {}
    /\ "progress" \notin Elems(stdout) /\ "RSD" \notin Elems(stdout)

\* The run has aborted at the assertion although trials were asked for.
C9_Witness ==
  pc = "AssertionError" /\ ~checkpoint_isfile /\ num_test > 0 /\ Members > 0

====
